---- MODULE Spec2Model ----
(***************************************************************************)
(* Model of the serverless handlers of LVS-AI/serverless-ai:               *)
(*                                                                         *)
(*   functions/adjustChatCapacity.ts     adjustChatCapacity and its        *)
(*                                       helper increaseChatCapacity       *)
(*   functions/saveContactToSaferNet.ts  isValidRequest and handler        *)
(*                                                                         *)
(* The Twilio worker and its "chat" worker channel live on the TaskRouter  *)
(* service.  Every await on the REST client (worker fetch, channel list,   *)
(* channel.update) is one step, so that invocations that run at the same   *)
(* time interleave between their reads and their updates.  The calls to    *)
(* the REST client are taken to answer; a channel.update stores the        *)
(* capacity it is given and answers with the stored channel.               *)
(***************************************************************************)
EXTENDS Integers, Sequences, FiniteSets

\* Largest maxMessageCapacity worker attribute and largest initial deviation
\* of the channel capacity that are explored.
MaxCap == 3

\* Invocations of adjustChatCapacity that may be in flight together.
Procs == {"p1", "p2"}

\* The invocation used when adjustChatCapacity runs alone.
Solo == "p1"

\* availableCapacityPercentage as reported by TaskRouter: 0 is "no capacity
\* available", every other value is "capacity available".
AvailableCapacityPercentages == {0, 50, 100}

\* body.adjustment: the four values of the Body type and a value outside it.
Adjustments == {"increase", "decrease", "increaseUntilCapacityAvailable", "setTo1", "invalid"}

VARIABLES
    worker,     \* the TaskRouter worker: found, maxMessageCapacity attribute, has a chat channel
    chan,       \* the worker's chat channel as stored by TaskRouter
    inv,        \* one record per invocation of adjustChatCapacity
    context,    \* environment of saveContactToSaferNet
    sn          \* the invocation of the saveContactToSaferNet handler

vars == <<worker, chan, inv, context, sn>>

(***************************************************************************)
(* adjustChatCapacity                                                      *)
(***************************************************************************)

NoResult == [status |-> 0, message |-> ""]

IdleInvocation ==
    [pc |-> "idle", adjustment |-> "invalid", channel |-> <<>>, result |-> NoResult,
     initialCapacity |-> 0, updates |-> 0]

\* parseInt(attributes.maxMessageCapacity, 10); a missing or non numeric
\* attribute parses to NaN, which is falsy like 0 and is represented by 0.
maxMessageCapacity == worker.maxMessageCapacity

\* channel.availableCapacityPercentage > 0
StillAvailable(channel) == channel.availableCapacityPercentage > 0

ReachedMax_OffByOne(channel, max) == ~(channel.configuredCapacity <= max)

\* !(channel.configuredCapacity < maxMessageCapacity)
ReachedMax(channel, max) == ~(channel.configuredCapacity < max)

\* The two early returns of increaseChatCapacity; NoResult when it goes on to update.
increaseChatCapacityGuard(channel, max) ==
    IF StillAvailable(channel)
    THEN [status |-> 412, message |-> "Still have available capacity, no need to increase."]
    ELSE IF ReachedMax(channel, max)
    THEN [status |-> 412, message |-> "Reached the max capacity."]
    ELSE NoResult

\* The result of 'increaseUntilCapacityAvailable' once its loop has ended.
UntilAvailableResult(channel, max) ==
    IF channel.configuredCapacity = max /\ channel.availableCapacityPercentage = 0
    THEN [status |-> 412, message |-> "Reached the max capacity with no available capacity."]
    ELSE [status |-> 200, message |-> "Adjusted chat capacity until there is capacity available"]

CanDecrease_DownTo0(channel) == channel.configuredCapacity - 1 >= 0

\* channel.configuredCapacity - 1 >= 1
CanDecrease(channel) == channel.configuredCapacity - 1 >= 1

\* channel.configuredCapacity !== 1
NotAlready1(channel) == channel.configuredCapacity # 1

\* capacity argument of the update issued by 'setTo1'
SetTo1Capacity(channel) == channel.configuredCapacity - 1

\* capacity argument of the update issued by 'decrease'
DecreasedCapacity(channel) == channel.configuredCapacity - 1

IncreasedCapacity_OfStoredChannel(channel) == chan.configuredCapacity + 1

\* capacity argument of the update issued by increaseChatCapacity
IncreasedCapacity(channel) == channel.configuredCapacity + 1

Return(p, r) == inv' = [inv EXCEPT ![p].pc = "returned", ![p].result = r]

\* TaskRouter stores a capacity of 0 or more and rejects a negative one.
Accepted(capacity) == capacity >= 0

\* await channel.update({ capacity }): TaskRouter stores the capacity and
\* answers with the stored channel, whose availableCapacityPercentage it
\* recomputes; a rejected update throws out of adjustChatCapacity.  On success
\* the invocation goes to pc with the given result, and assigns the answer to
\* its channel variable when assign is set.
ChannelUpdate(p, capacity, pc, result, assign) ==
    IF Accepted(capacity)
    THEN \E a \in AvailableCapacityPercentages :
           /\ chan' = [configuredCapacity |-> capacity, availableCapacityPercentage |-> a]
           /\ inv' = [inv EXCEPT ![p].pc = pc,
                                 ![p].updates = @ + 1,
                                 ![p].result = result,
                                 ![p].channel = IF assign THEN <<chan'>> ELSE @]
    ELSE /\ inv' = [inv EXCEPT ![p].pc = "thrown", ![p].updates = @ + 1]
         /\ UNCHANGED chan

\* adjustChatCapacity(context, body) is called.
Invoke(p) ==
    /\ inv[p].pc = "idle"
    /\ \E adjustment \in Adjustments :
         inv' = [inv EXCEPT ![p] = [IdleInvocation EXCEPT !.pc = "fetchWorker",
                                                          !.adjustment = adjustment]]
    /\ UNCHANGED <<worker, chan, context, sn>>

\* The worker is fetched and its maxMessageCapacity attribute parsed.
FetchWorker(p) ==
    /\ inv[p].pc = "fetchWorker"
    /\ IF ~worker.found
       THEN Return(p, [status |-> 404, message |-> "Could not find worker."])
       ELSE IF maxMessageCapacity = 0
       THEN Return(p, [status |-> 409, message |-> "Worker does not have a maxMessageCapacity attribute"])
       ELSE inv' = [inv EXCEPT ![p].pc = "listChannels"]
    /\ UNCHANGED <<worker, chan, context, sn>>

\* The worker's channels are listed and the chat channel looked up.
ListChannels(p) ==
    /\ inv[p].pc = "listChannels"
    /\ IF ~worker.chat
       THEN Return(p, [status |-> 404, message |-> "Could not find chat channel."])
       ELSE inv' = [inv EXCEPT ![p].pc = "adjust", ![p].channel = <<chan>>,
                               ![p].initialCapacity = chan.configuredCapacity]
    /\ UNCHANGED <<worker, chan, context, sn>>

\* increaseChatCapacity up to its await, called for 'increase' or from the
\* loop of 'increaseUntilCapacityAvailable'; when it returns 412 the loop
\* ends and 'increaseUntilCapacityAvailable' returns its own result.
IncreaseCheck(p) ==
    /\ inv[p].pc = "adjust"
    /\ inv[p].adjustment \in {"increase", "increaseUntilCapacityAvailable"}
    /\ LET channel == inv[p].channel[1]
           result  == increaseChatCapacityGuard(channel, maxMessageCapacity)
       IN  IF result = NoResult
           THEN inv' = [inv EXCEPT ![p].pc = "increaseUpdate"]
           ELSE IF inv[p].adjustment = "increase"
           THEN Return(p, result)
           ELSE Return(p, UntilAvailableResult(channel, maxMessageCapacity))
    /\ UNCHANGED <<worker, chan, context, sn>>

\* The channel.update of increaseChatCapacity answers: 'increase' returns,
\* the loop of 'increaseUntilCapacityAvailable' goes round with the answer.
IncreaseUpdate(p) ==
    /\ inv[p].pc = "increaseUpdate"
    /\ ChannelUpdate(p, IncreasedCapacity(inv[p].channel[1]),
                     IF inv[p].adjustment = "increase" THEN "returned" ELSE "adjust",
                     [status |-> 200, message |-> "Successfully increased channel capacity"],
                     inv[p].adjustment # "increase")
    /\ UNCHANGED <<worker, context, sn>>

\* 'decrease' up to its await.
DecreaseCheck(p) ==
    /\ inv[p].pc = "adjust"
    /\ inv[p].adjustment = "decrease"
    /\ IF CanDecrease(inv[p].channel[1])
       THEN inv' = [inv EXCEPT ![p].pc = "decreaseUpdate"]
       ELSE Return(p, [status |-> 200, message |-> "Successfully decreased channel capacity"])
    /\ UNCHANGED <<worker, chan, context, sn>>

\* The channel.update of 'decrease' answers.
DecreaseUpdate(p) ==
    /\ inv[p].pc = "decreaseUpdate"
    /\ ChannelUpdate(p, DecreasedCapacity(inv[p].channel[1]), "returned",
                     [status |-> 200, message |-> "Successfully decreased channel capacity"],
                     FALSE)
    /\ UNCHANGED <<worker, context, sn>>

\* 'setTo1' up to its await.
SetTo1Check(p) ==
    /\ inv[p].pc = "adjust"
    /\ inv[p].adjustment = "setTo1"
    /\ IF NotAlready1(inv[p].channel[1])
       THEN inv' = [inv EXCEPT ![p].pc = "setTo1Update"]
       ELSE Return(p, [status |-> 200, message |-> "Channel capacity already 1, no adjustment made."])
    /\ UNCHANGED <<worker, chan, context, sn>>

\* The channel.update of 'setTo1' answers.
SetTo1Update(p) ==
    /\ inv[p].pc = "setTo1Update"
    /\ ChannelUpdate(p, SetTo1Capacity(inv[p].channel[1]), "returned",
                     [status |-> 200, message |-> "Successfully reset channel capacity to 1"],
                     FALSE)
    /\ UNCHANGED <<worker, context, sn>>

\* No branch matched body.adjustment.
InvalidAdjustment(p) ==
    /\ inv[p].pc = "adjust"
    /\ inv[p].adjustment = "invalid"
    /\ Return(p, [status |-> 400, message |-> "Invalid adjustment argument"])
    /\ UNCHANGED <<worker, chan, context, sn>>

\* The handler has resolved the request with the result, or with error500
\* for what was thrown; the invocation is over.
Finish(p) ==
    /\ inv[p].pc \in {"returned", "thrown"}
    /\ inv' = [inv EXCEPT ![p] = IdleInvocation]
    /\ UNCHANGED <<worker, chan, context, sn>>

Step(p) ==
    \/ FetchWorker(p)
    \/ ListChannels(p)
    \/ IncreaseCheck(p)
    \/ IncreaseUpdate(p)
    \/ DecreaseCheck(p)
    \/ DecreaseUpdate(p)
    \/ SetTo1Check(p)
    \/ SetTo1Update(p)
    \/ InvalidAdjustment(p)
    \/ Finish(p)

(***************************************************************************)
(* saveContactToSaferNet                                                   *)
(***************************************************************************)

\* event.Token: absent (or empty), a token the Flex token validator accepts,
\* and one it rejects.
Tokens == {"", "valid-token", "expired-token"}

\* event.ApiKey: absent (or empty), the static key, another key.
ApiKeys == {"", "static-key", "other-key"}

\* event.payload: a JSON text, and a text JSON.parse throws on.
Payloads == {"{json}", "not json"}

\* What the POST to SaferNet comes back with: data.success set, data.success
\* unset, or axios throwing.
Responses == {"success", "failure", "error"}

Events == [Token : Tokens, ApiKey : ApiKeys, payload : Payloads]

\* Each environment variable is provided or missing.
Contexts ==
    [SAFERNET_ENDPOINT : {"", "https://safernet"},
     SAFERNET_TOKEN : {"", "secret"},
     SAVE_PENDING_CONTACTS_STATIC_KEY : {"", "static-key"}]

NoContext == [SAFERNET_ENDPOINT |-> "", SAFERNET_TOKEN |-> "", SAVE_PENDING_CONTACTS_STATIC_KEY |-> ""]

NoEvent == [Token |-> "", ApiKey |-> "", payload |-> "{json}"]

IdleRequest ==
    [pc |-> "idle", event |-> NoEvent, resolved |-> <<>>, posts |-> 0, response |-> "none"]

\* validateToken(Token, ACCOUNT_SID, AUTH_TOKEN) resolves, rather than rejects.
validateToken(Token) == Token = "valid-token"

\* JSON.parse(payload) returns, rather than throws.
ParsesAsJSON(payload) == payload = "{json}"

isValidRequest_ApiKeyAfterBadToken(ctx, event) ==
    IF event.Token # "" /\ validateToken(event.Token)
    THEN TRUE
    ELSE IF event.ApiKey # ""
    THEN event.ApiKey = ctx.SAVE_PENDING_CONTACTS_STATIC_KEY
    ELSE FALSE

isValidRequest(ctx, event) ==
    IF event.Token # ""
    THEN validateToken(event.Token)
    ELSE IF event.ApiKey # ""
    THEN event.ApiKey = ctx.SAVE_PENDING_CONTACTS_STATIC_KEY
    ELSE FALSE

\* The three checks of the environment at the head of the handler.
EnvProvided(ctx) ==
    /\ ctx.SAFERNET_ENDPOINT # ""
    /\ ctx.SAFERNET_TOKEN # ""
    /\ ctx.SAVE_PENDING_CONTACTS_STATIC_KEY # ""

ResponseStatus_IgnoresSuccess(response) == IF response = "error" THEN 500 ELSE 200

\* The status the handler resolves with for what SaferNet answered:
\* success(...) when data.success is set, error500 otherwise and in the catch.
ResponseStatus(response) == IF response = "success" THEN 200 ELSE 500

Resolve(status) == sn' = [sn EXCEPT !.pc = "ended", !.resolved = Append(@, status)]

\* The handler is called with an event; it throws when an environment
\* variable is missing.
SNInvoke ==
    /\ sn.pc = "idle"
    /\ \E event \in Events :
         sn' = [IdleRequest EXCEPT !.event = event,
                                   !.pc = IF EnvProvided(context) THEN "isValidRequest" ELSE "thrown"]
    /\ UNCHANGED <<worker, chan, inv, context>>

\* await isValidRequest(context, event), and the 403 when it is false.
SNValidate ==
    /\ sn.pc = "isValidRequest"
    /\ IF isValidRequest(context, sn.event)
       THEN sn' = [sn EXCEPT !.pc = "try"]
       ELSE Resolve(403)
    /\ UNCHANGED <<worker, chan, inv, context>>

\* The try block up to its await: the payload is signed and parsed and the
\* POST sent; a payload that does not parse lands in the catch.
SNPost ==
    /\ sn.pc = "try"
    /\ IF ParsesAsJSON(sn.event.payload)
       THEN sn' = [sn EXCEPT !.pc = "posted", !.posts = @ + 1]
       ELSE Resolve(500)
    /\ UNCHANGED <<worker, chan, inv, context>>

\* The POST comes back and the handler resolves.
SNRespond ==
    /\ sn.pc = "posted"
    /\ \E response \in Responses :
         sn' = [sn EXCEPT !.pc = "ended", !.response = response,
                          !.resolved = Append(@, ResponseStatus(response))]
    /\ UNCHANGED <<worker, chan, inv, context>>

\* The invocation is over, resolved or thrown.
SNFinish ==
    /\ sn.pc \in {"ended", "thrown"}
    /\ sn' = IdleRequest
    /\ UNCHANGED <<worker, chan, inv, context>>

(***************************************************************************)
(* Specifications                                                          *)
(***************************************************************************)

Workers == [found : BOOLEAN, maxMessageCapacity : 0..MaxCap, chat : BOOLEAN]

\* Concurrent invocations on a worker whose chat channel starts within
\* [1, maxMessageCapacity].
Init ==
    /\ worker \in Workers
    /\ chan \in [configuredCapacity : 1..MaxCap, availableCapacityPercentage : AvailableCapacityPercentages]
    /\ chan.configuredCapacity <= IF maxMessageCapacity = 0 THEN 1 ELSE maxMessageCapacity
    /\ inv = [p \in Procs |-> IdleInvocation]
    /\ context = NoContext
    /\ sn = IdleRequest

Next == \E p \in Procs : Invoke(p) \/ Step(p)

Spec == Init /\ [][Next]_vars

\* One invocation at a time, on any channel state, including a capacity of 0
\* and capacities above maxMessageCapacity.
SeqInit ==
    /\ worker \in Workers
    /\ chan \in [configuredCapacity : 0..(MaxCap + 1), availableCapacityPercentage : AvailableCapacityPercentages]
    /\ inv = [p \in Procs |-> IdleInvocation]
    /\ context = NoContext
    /\ sn = IdleRequest

SeqNext == Invoke(Solo) \/ Step(Solo)

SeqSpec == SeqInit /\ [][SeqNext]_vars

\* An invocation that was called runs on: every await is answered.
SeqFairSpec == SeqSpec /\ WF_vars(Step(Solo))

\* Invocations of the saveContactToSaferNet handler, one at a time, under any
\* environment.
SaferNetInit ==
    /\ worker = [found |-> TRUE, maxMessageCapacity |-> 1, chat |-> TRUE]
    /\ chan = [configuredCapacity |-> 1, availableCapacityPercentage |-> 0]
    /\ inv = [p \in Procs |-> IdleInvocation]
    /\ context \in Contexts
    /\ sn = IdleRequest

SaferNetNext == SNInvoke \/ SNValidate \/ SNPost \/ SNRespond \/ SNFinish

SaferNetSpec == SaferNetInit /\ [][SaferNetNext]_vars

(***************************************************************************)
(* Properties                                                              *)
(***************************************************************************)

UntilAvailable == "increaseUntilCapacityAvailable"

\* The invocation got hold of the worker, its maxMessageCapacity and its chat channel.
Found(p) == inv[p].channel # <<>>

Max0(n) == IF n > 0 THEN n ELSE 0

C1_UpdatesBounded ==
    \A p \in Procs :
        (inv[p].adjustment = UntilAvailable /\ Found(p))
            => inv[p].updates <= Max0(maxMessageCapacity - inv[p].initialCapacity)

C1_InLoop == inv[Solo].adjustment = UntilAvailable /\ inv[Solo].pc \in {"adjust", "increaseUpdate"}

C1_Returned ==
    /\ inv[Solo].adjustment = UntilAvailable
    /\ inv[Solo].pc = "returned"
    /\ inv[Solo].result.status \in {200, 412}

\* C1: 'increaseUntilCapacityAvailable' always terminates: whatever the
\* capacity and availability of the chat channel it starts from, the loop
\* issues at most max(0, maxMessageCapacity - initial configuredCapacity)
\* updates, and then adjustChatCapacity returns a result.
C1_LoopTerminates == [](C1_UpdatesBounded) /\ (C1_InLoop ~> C1_Returned)

\* The loop has raised the capacity twice, all the way to maxMessageCapacity.
C1_Witness ==
    /\ inv[Solo].adjustment = UntilAvailable
    /\ inv[Solo].pc = "returned"
    /\ inv[Solo].updates = 2
    /\ inv[Solo].updates = maxMessageCapacity - inv[Solo].initialCapacity

\* C2: when 'increaseUntilCapacityAvailable' returns 200 the channel it ends
\* with has availableCapacityPercentage > 0, and it returns 412 whenever
\* that channel has no available capacity, for every initial capacity.
C2_Returns200OnlyWithCapacityAvailable ==
    \A p \in Procs :
        (inv[p].adjustment = UntilAvailable /\ inv[p].pc = "returned" /\ Found(p))
            => /\ inv[p].result.status = 200 => inv[p].channel[1].availableCapacityPercentage > 0
               /\ inv[p].channel[1].availableCapacityPercentage = 0 => inv[p].result.status = 412

\* C3: after 'setTo1' returns 200 on a channel whose capacity was 1 or more,
\* the channel's configuredCapacity is 1: it was 1 already and no update
\* was issued, or the channel was updated and its capacity is 1 now.
C3_SetTo1LeavesCapacity1 ==
    \A p \in Procs :
        (/\ inv[p].adjustment = "setTo1"
         /\ inv[p].pc = "returned"
         /\ inv[p].result.status = 200
         /\ inv[p].initialCapacity >= 1)
            => /\ chan.configuredCapacity = 1
               /\ \/ /\ inv[p].result.message = "Channel capacity already 1, no adjustment made."
                     /\ inv[p].updates = 0
                  \/ /\ inv[p].result.message = "Successfully reset channel capacity to 1"
                     /\ inv[p].updates = 1

C4_DecreaseSafe ==
    \A p \in Procs :
        (inv[p].adjustment = "decrease" /\ Found(p))
            => /\ inv[p].pc # "thrown"
               /\ chan.configuredCapacity >= 1 \/ chan.configuredCapacity = inv[p].initialCapacity
               /\ inv[p].pc = "decreaseUpdate" => inv[p].initialCapacity >= 2
               /\ inv[p].pc = "returned" =>
                    /\ inv[p].result.status = 200
                    /\ IF inv[p].initialCapacity >= 2
                       THEN inv[p].updates = 1 /\ chan.configuredCapacity = inv[p].initialCapacity - 1
                       ELSE inv[p].updates = 0 /\ chan.configuredCapacity = inv[p].initialCapacity

C4_Decreasing == inv[Solo].adjustment = "decrease" /\ inv[Solo].pc \in {"adjust", "decreaseUpdate"}

C4_Returned200 ==
    /\ inv[Solo].adjustment = "decrease"
    /\ inv[Solo].pc = "returned"
    /\ inv[Solo].result.status = 200

\* C4: 'decrease' never lowers the channel's configuredCapacity below 1 and
\* always returns 200 once worker, maxMessageCapacity and chat channel were
\* found: from a capacity of 2 or more it issues exactly one update, to the
\* capacity minus one; from a capacity of 1 or less it issues none.
C4_DecreaseNeverBelow1 == [](C4_DecreaseSafe) /\ (C4_Decreasing ~> C4_Returned200)

\* 'decrease' has returned after lowering a capacity of 2 to 1.
C4_Witness ==
    /\ inv[Solo].adjustment = "decrease"
    /\ inv[Solo].pc = "returned"
    /\ inv[Solo].initialCapacity = 2
    /\ inv[Solo].updates = 1
    /\ chan.configuredCapacity = 1

\* C7: with maxMessageCapacity >= 1 and the chat channel starting within
\* [1, maxMessageCapacity], its configuredCapacity stays within that range
\* under any interleaving of the reads and updates of concurrent invocations.
C7_CapacityInRange ==
    (worker.found /\ worker.chat /\ maxMessageCapacity >= 1)
        => chan.configuredCapacity \in 1..maxMessageCapacity

\* An invocation is about to write a capacity computed from a stale read:
\* another invocation has updated the channel in between.
C7_Witness ==
    \E p, q \in Procs :
        /\ p # q
        /\ inv[p].pc \in {"increaseUpdate", "decreaseUpdate", "setTo1Update"}
        /\ inv[q].updates >= 1
        /\ inv[p].channel[1].configuredCapacity # chan.configuredCapacity

\* Token present and valid, or no Token and the ApiKey is the static key.
Authorised ==
    \/ sn.event.Token # "" /\ validateToken(sn.event.Token)
    \/ sn.event.Token = "" /\ sn.event.ApiKey = context.SAVE_PENDING_CONTACTS_STATIC_KEY

SNOver == sn.pc \in {"ended", "thrown"}

\* C5 as stated: the POST is sent only for an authorised request, and every
\* other request is resolved with a 403 and makes no call to SaferNet.
C5_UnauthorisedAlways403 ==
    /\ sn.posts > 0 => Authorised
    /\ (SNOver /\ ~Authorised) => (sn.resolved = <<403>> /\ sn.posts = 0)

\* C5, amended: the POST is sent only for an authorised request; every other
\* request makes no call to SaferNet and, when the three environment
\* variables are provided, is resolved with a 403; when one is missing the
\* handler throws before it looks at the request and resolves nothing.
C5_PostOnlyWhenAuthorised ==
    /\ sn.posts > 0 => (Authorised /\ EnvProvided(context))
    /\ (SNOver /\ ~Authorised) =>
         /\ sn.posts = 0
         /\ sn.resolved = IF EnvProvided(context) THEN <<403>> ELSE <<>>
    /\ (SNOver /\ Authorised /\ EnvProvided(context)) => sn.resolved # <<403>>

\* A request with an invalid Token and the right ApiKey was refused.
C5_Witness ==
    /\ sn.pc = "ended"
    /\ sn.event.Token = "expired-token"
    /\ sn.event.ApiKey = context.SAVE_PENDING_CONTACTS_STATIC_KEY
    /\ sn.resolved = <<403>>
    /\ sn.posts = 0

\* The status an invocation that got past the environment checks resolves with.
C6_ExpectedStatus ==
    IF ~Authorised THEN 403
    ELSE IF sn.response = "success" THEN 200
    ELSE 500

\* C6 as stated: every invocation of the handler resolves the callback
\* exactly once; no path ends without a response.
C6_EveryInvocationResolvesOnce ==
    /\ Len(sn.resolved) <= 1
    /\ SNOver => sn.resolved = <<C6_ExpectedStatus>>

\* C6, amended: every invocation made with the three environment variables
\* provided resolves the callback exactly once: 403 when not authorised,
\* success when the SaferNet response has success set, 500 when it has not
\* or when parsing the payload or the HTTP call throws.  With a variable
\* missing the handler throws without resolving.  No path resolves twice.
C6_ResolvesOnceWhenEnvProvided ==
    /\ Len(sn.resolved) <= 1
    /\ sn.pc = "ended" => (EnvProvided(context) /\ sn.resolved = <<C6_ExpectedStatus>>)
    /\ sn.pc = "thrown" => (~EnvProvided(context) /\ sn.resolved = <<>> /\ sn.posts = 0)
    /\ (sn.pc = "ended" /\ sn.response = "none" /\ Authorised) => ~ParsesAsJSON(sn.event.payload)

\* An authorised request was posted and SaferNet answered without success.
C6_Witness ==
    /\ sn.pc = "ended"
    /\ sn.posts = 1
    /\ sn.response = "failure"
    /\ sn.resolved = <<500>>

====
